---- MODULE Spec2Model ----
(***************************************************************************)
(* Model of FX3_Firmware/I2cFunctions.c: the USB-to-I2C bridge of the      *)
(* iSensor FX3 firmware (AdiI2CReadHandler, AdiI2CWriteHandler,            *)
(* AdiI2CInit, ParseUSBBuffer).                                            *)
(*                                                                         *)
(* uint32_t values are kept as a pair of 16-bit halves [hi, lo], so that   *)
(* the full 32-bit range (top bit included) is representable.              *)
(*                                                                         *)
(* Every operation is one action.  It leaves in `last` the calls it made   *)
(* to its collaborators (USB control endpoint, I2C driver, DMA channel,    *)
(* error log), in order, with their arguments and statuses, and the status *)
(* it returned.                                                            *)
(*                                                                         *)
(* Two places of the source have undefined behaviour; both are choices of  *)
(* the environment here: the value of the uninitialised local `index` in   *)
(* ParseUSBBuffer when preamble.length is 0, and what the stores past      *)
(* preamble->buffer[8] overwrite when preamble.length exceeds 8.           *)
(***************************************************************************)
EXTENDS Integers, Sequences, FiniteSets, TLC

VARIABLES
    USBBuffer,      \* bytes of USBBuffer[] written so far (index 0 first); the rest is still 0
    ManualDMABuffer,\* the DMA descriptor [buffer, size, count]
    bulkPending,    \* a buffer handed to ChannelToPC has not been sent yet
    FX3State,       \* [I2CBitRate, I2CRetryCount]
    i2c,            \* state of the I2C master block as left by the driver calls
    last,           \* the last operation: its inputs, the calls it made, its return status
    nreq,           \* number of control requests handled so far
    pc,             \* position of the parser harness: "in" or "out"
    pin,            \* parser harness: the header encoded into the buffer
    pout            \* parser harness: what ParseUSBBuffer delivered

vars == <<USBBuffer, ManualDMABuffer, bulkPending, FX3State, i2c, last, nreq, pc, pin, pout>>

-----------------------------------------------------------------------------
(* Program constants *)

USBBufferSize == 4096
BulkBufferSize == 12288
DmaBufferSize == 4096
PreambleCap == 8         \* uint8_t buffer[8] of CyU3PI2cPreamble_t
MinBitRate == 100000
MaxBitRate == 1000000
DmaTimeout == 65535

(* Bounds of the model *)
MaxRequests == 2

SUCCESS == "CY_U3P_SUCCESS"

-----------------------------------------------------------------------------
(* 32-bit unsigned arithmetic on [hi, lo] pairs *)

U32(h, l) == [hi |-> h, lo |-> l]
U32Of(n) == U32(n \div 65536, n % 65536)
U32Lt(a, b) == a.hi < b.hi \/ (a.hi = b.hi /\ a.lo < b.lo)
U32Le(a, b) == a = b \/ U32Lt(a, b)
U32Inc(a) == IF a.lo < 65535 THEN U32(a.hi, a.lo + 1)
             ELSE IF a.hi < 65535 THEN U32(a.hi + 1, 0)
             ELSE U32(0, 0)
\* a + n > lim as integers (no wrap-around), for 0 <= n and lim < 65536
U32SumExceeds(a, n, lim) == a.hi > 0 \/ a.lo > lim - n
BusTimeout == U32(65535, 65535)

Min(a, b) == IF a < b THEN a ELSE b

-----------------------------------------------------------------------------
(* USBBuffer access: buf holds the bytes written so far, the rest of the   *)
(* 4096-byte global is zero.                                               *)

At(buf, i) == IF i < Len(buf) THEN buf[i + 1] ELSE 0

\* the buffer after count bytes of wire were copied to its start
Overlay(buf, wire) ==
    [i \in 1..(IF Len(wire) > Len(buf) THEN Len(wire) ELSE Len(buf)) |->
        IF i <= Len(wire) THEN wire[i] ELSE buf[i]]

-----------------------------------------------------------------------------
(* ParseUSBBuffer *)

ParseNumBytes_BigEndian(buf) ==
    U32(At(buf, 1) + 256 * At(buf, 0), At(buf, 3) + 256 * At(buf, 2))

ParseNumBytes(buf) ==
    U32(At(buf, 2) + 256 * At(buf, 3), At(buf, 0) + 256 * At(buf, 1))

ParseTimeout(buf) ==
    U32(At(buf, 6) + 256 * At(buf, 7), At(buf, 4) + 256 * At(buf, 5))

ParseLength(buf) == At(buf, 8)

ParseCtrlMask(buf) == At(buf, 9) + 256 * At(buf, 10)

\* the stores preamble->buffer[i] = USBBuffer[11 + i] that stay inside buffer[8]
ParseAddress(buf) ==
    [i \in 1..Min(ParseLength(buf), PreambleCap) |-> At(buf, 11 + (i - 1))]

\* the indices i >= 8 at which the loop stores past the end of buffer[8]
ParseOobStores(buf) == {i \in 0..(ParseLength(buf) - 1) : i >= PreambleCap}

\* the indices of USBBuffer the function reads
ParseReads(buf) == 0..(10 + ParseLength(buf))

\* index is assigned only inside the loop; with length = 0 the function
\* increments and returns the uninitialised local (value uninit)
ParseIndex(buf, uninit) ==
    IF ParseLength(buf) = 0 THEN U32Inc(uninit)
    ELSE U32Inc(U32Of(11 + (ParseLength(buf) - 1)))

ParseUSBBuffer(buf, uninit) ==
    [numBytes |-> ParseNumBytes(buf),
     timeout  |-> ParseTimeout(buf),
     preamble |-> [length   |-> ParseLength(buf),
                   ctrlMask |-> ParseCtrlMask(buf),
                   buffer   |-> ParseAddress(buf)],
     index    |-> ParseIndex(buf, uninit),
     reads    |-> ParseReads(buf),
     oob      |-> ParseOobStores(buf)]

-----------------------------------------------------------------------------
(* The host side: the wire layout of a request (all integers little-endian) *)

EncodeU32(x) == <<x.lo % 256, x.lo \div 256, x.hi % 256, x.hi \div 256>>

Encode(h) ==
    EncodeU32(h.transferLength) \o EncodeU32(h.timeoutTicks)
    \o <<h.length, h.ctrlMask % 256, h.ctrlMask \div 256>>
    \o h.addressBytes

AddrPatterns == {"up", "down"}
AddrByte(pat, i) == IF pat = "up" THEN 80 + i ELSE 255 - i
DataByte(j) == 160 + j
Header(tl, to, len, mask, pat) ==
    [transferLength |-> tl, timeoutTicks |-> to, length |-> len,
     ctrlMask |-> mask, addressBytes |-> [i \in 1..len |-> AddrByte(pat, i - 1)]]

\* values an uninitialised uint32_t local may hold
UninitValues == {U32Of(10), U32Of(0), U32(65535, 65535)}

-----------------------------------------------------------------------------
(* Calls made by an operation, in order *)

Call(fn, arg, st) == [fn |-> fn, arg |-> arg, st |-> st]

Ep0Statuses == {SUCCESS, "CY_U3P_ERROR_TIMEOUT"}
BusStatuses == {SUCCESS, "CY_U3P_ERROR_FAILURE"}
DriverStatuses == {SUCCESS, "CY_U3P_ERROR_NOT_SUPPORTED"}

\* the bus driver performs transactions only once CyU3PI2cSetConfig succeeded
BusOutcomes == IF i2c.configured THEN BusStatuses ELSE BusStatuses \ {SUCCESS}

Ep0Proceeds_Always(status) == TRUE

\* if(status != CY_U3P_SUCCESS) return status;  after CyU3PUsbGetEP0Data
Ep0Proceeds(status) == status = SUCCESS

GetEP0Data(RequestLength, wire, st) ==
    Call("CyU3PUsbGetEP0Data",
         [count |-> RequestLength,
          bytesRead |-> IF st = SUCCESS THEN Len(wire) ELSE 0], st)

\* the bytes CyU3PUsbGetEP0Data delivered
Delivered(wire, st) == IF st = SUCCESS THEN wire ELSE <<>>

\* USBBuffer after CyU3PUsbGetEP0Data
Received(wire, st) == IF st = SUCCESS THEN Overlay(USBBuffer, wire) ELSE USBBuffer

\* numBytes as the handler sees it after ParseUSBBuffer returned.  Stores
\* past preamble->buffer[8] land in the handler's frame, where numBytes
\* lives; clob chooses whether they hit it.
FrameNumBytes(p, buf, clob) ==
    IF p.oob # {} /\ clob THEN U32(0, At(buf, 11 + PreambleCap)) ELSE p.numBytes

ParseCall(p) == Call("ParseUSBBuffer", p, "void")

ReceiveBytes(p, n, st) ==
    Call("CyU3PI2cReceiveBytes",
         [preamble |-> p.preamble, data |-> "BulkBuffer", offset |-> U32Of(0),
          byteCount |-> n, retryCount |-> FX3State.I2CRetryCount,
          pending |-> bulkPending], st)

TransmitBytes(p, n, st) ==
    Call("CyU3PI2cTransmitBytes",
         [preamble |-> p.preamble, data |-> "USBBuffer", offset |-> p.index,
          byteCount |-> n, retryCount |-> FX3State.I2CRetryCount,
          pending |-> bulkPending], st)

LogError(line, code) ==
    Call("AdiLogError", [file |-> "I2cFunctions_c", line |-> line, code |-> code], "void")

\* ManualDMABuffer.count is a 16-bit field: the assignment keeps the low half
SendDescriptor(n) == [buffer |-> "BulkBuffer", size |-> DmaBufferSize, count |-> n.lo]

SetupSendBuffer(d) == Call("CyU3PDmaChannelSetupSendBuffer", d, "ignored")

-----------------------------------------------------------------------------
(* AdiI2CReadHandler *)

ReadCalls_StageAlways(RequestLength, wire, ep0st, uninit, clob, busst) ==
    LET buf == Received(wire, ep0st)
        p   == ParseUSBBuffer(buf, uninit)
        n   == FrameNumBytes(p, buf, clob)
    IN  IF ~Ep0Proceeds(ep0st)
        THEN <<GetEP0Data(RequestLength, wire, ep0st)>>
        ELSE <<GetEP0Data(RequestLength, wire, ep0st), ParseCall(p),
               ReceiveBytes(p, n, busst), SetupSendBuffer(SendDescriptor(n))>>

ReadCalls(RequestLength, wire, ep0st, uninit, clob, busst) ==
    LET buf == Received(wire, ep0st)
        p   == ParseUSBBuffer(buf, uninit)
        n   == FrameNumBytes(p, buf, clob)
    IN  IF ~Ep0Proceeds(ep0st)
        THEN <<GetEP0Data(RequestLength, wire, ep0st)>>
        ELSE <<GetEP0Data(RequestLength, wire, ep0st), ParseCall(p),
               ReceiveBytes(p, n, busst)>>
             \o (IF busst # SUCCESS THEN <<>>
                 ELSE <<SetupSendBuffer(SendDescriptor(n))>>)

ReadStatus(ep0st, busst) == IF ~Ep0Proceeds(ep0st) THEN ep0st ELSE busst

Staged(calls) == SelectSeq(calls, LAMBDA c : c.fn = "CyU3PDmaChannelSetupSendBuffer")

AdiI2CReadHandler(RequestLength, wire, ep0st, uninit, clob, busst) ==
    LET calls == ReadCalls(RequestLength, wire, ep0st, uninit, clob, busst)
    IN  /\ nreq < MaxRequests
        /\ nreq' = nreq + 1
        /\ USBBuffer' = Received(wire, ep0st)
        /\ ManualDMABuffer' = IF Staged(calls) # <<>> THEN Staged(calls)[1].arg
                              ELSE ManualDMABuffer
        /\ bulkPending' = (bulkPending \/ Staged(calls) # <<>>)
        /\ last' = [op |-> "read", status |-> ReadStatus(ep0st, busst),
                    calls |-> calls, arg |-> <<RequestLength>>,
                    wire |-> Delivered(wire, ep0st),
                    usbRecv |-> Received(wire, ep0st)]
        /\ UNCHANGED <<FX3State, i2c, pc, pin, pout>>

-----------------------------------------------------------------------------
(* AdiI2CWriteHandler *)

WriteLogs_Inverted(status) == IF status = SUCCESS THEN <<LogError(78, status)>> ELSE <<>>

\* if(status != CY_U3P_SUCCESS) AdiLogError(I2cFunctions_c, __LINE__, status);
WriteLogs(status) == IF status # SUCCESS THEN <<LogError(78, status)>> ELSE <<>>

WriteCalls_Retry(RequestLength, wire, ep0st, uninit, clob, busst) ==
    LET buf == Received(wire, ep0st)
        p   == ParseUSBBuffer(buf, uninit)
        n   == FrameNumBytes(p, buf, clob)
    IN  IF ~Ep0Proceeds(ep0st)
        THEN <<GetEP0Data(RequestLength, wire, ep0st)>>
        ELSE <<GetEP0Data(RequestLength, wire, ep0st), ParseCall(p),
               TransmitBytes(p, n, busst)>>
             \o (IF busst # SUCCESS THEN <<TransmitBytes(p, n, busst)>> ELSE <<>>)
             \o WriteLogs(busst)

WriteCalls(RequestLength, wire, ep0st, uninit, clob, busst) ==
    LET buf == Received(wire, ep0st)
        p   == ParseUSBBuffer(buf, uninit)
        n   == FrameNumBytes(p, buf, clob)
    IN  IF ~Ep0Proceeds(ep0st)
        THEN <<GetEP0Data(RequestLength, wire, ep0st)>>
        ELSE <<GetEP0Data(RequestLength, wire, ep0st), ParseCall(p),
               TransmitBytes(p, n, busst)>> \o WriteLogs(busst)

WriteStatus(ep0st, busst) == IF ~Ep0Proceeds(ep0st) THEN ep0st ELSE busst

AdiI2CWriteHandler(RequestLength, wire, ep0st, uninit, clob, busst) ==
    /\ nreq < MaxRequests
    /\ nreq' = nreq + 1
    /\ USBBuffer' = Received(wire, ep0st)
    /\ last' = [op |-> "write", status |-> WriteStatus(ep0st, busst),
                calls |-> WriteCalls(RequestLength, wire, ep0st, uninit, clob, busst),
                arg |-> <<RequestLength>>, wire |-> Delivered(wire, ep0st),
                usbRecv |-> Received(wire, ep0st)]
    /\ UNCHANGED <<ManualDMABuffer, bulkPending, FX3State, i2c, pc, pin, pout>>

-----------------------------------------------------------------------------
(* AdiI2CInit *)

FilterBitRate_NoUpper(BitRate) ==
    IF U32Lt(BitRate, U32Of(MinBitRate)) THEN U32Of(MinBitRate) ELSE BitRate

FilterBitRate(BitRate) ==
    IF U32Lt(BitRate, U32Of(MinBitRate)) THEN U32Of(MinBitRate)
    ELSE IF U32Lt(U32Of(MaxBitRate), BitRate) THEN U32Of(MaxBitRate)
    ELSE BitRate

NoConfig == [bitRate |-> U32Of(0), busTimeout |-> U32Of(0), dmaTimeout |-> 0, isDma |-> FALSE]

I2cConfig(BitRate, isDMA) ==
    [bitRate |-> FilterBitRate(BitRate), busTimeout |-> BusTimeout,
     dmaTimeout |-> DmaTimeout, isDma |-> isDMA]

SavedBitRate_Requested(BitRate) == BitRate

\* FX3State.I2CBitRate = BitRate;  BitRate was filtered in place above
SavedBitRate(BitRate) == FilterBitRate(BitRate)

InitCalls_ConfigAnyway(BitRate, isDMA, initst, cfgst) ==
    <<Call("CyU3PI2cDeInit", <<>>, "ignored"), Call("CyU3PI2cInit", <<>>, initst)>>
    \o (IF initst # SUCCESS THEN <<LogError(102, initst)>> ELSE <<>>)
    \o <<Call("CyU3PI2cSetConfig", I2cConfig(BitRate, isDMA), cfgst)>>

InitCalls(BitRate, isDMA, initst, cfgst) ==
    <<Call("CyU3PI2cDeInit", <<>>, "ignored"), Call("CyU3PI2cInit", <<>>, initst)>>
    \o (IF initst # SUCCESS THEN <<LogError(102, initst)>>
        ELSE <<Call("CyU3PI2cSetConfig", I2cConfig(BitRate, isDMA), cfgst)>>)

InitStatus(initst, cfgst) == IF initst # SUCCESS THEN initst ELSE cfgst

AdiI2CInit(BitRate, isDMA, initst, cfgst) ==
    /\ i2c' = [inited |-> initst = SUCCESS,
               configured |-> initst = SUCCESS /\ cfgst = SUCCESS,
               cfg |-> IF initst = SUCCESS /\ cfgst = SUCCESS
                       THEN I2cConfig(BitRate, isDMA) ELSE NoConfig]
    /\ FX3State' = IF initst # SUCCESS THEN FX3State
                   ELSE [FX3State EXCEPT !.I2CBitRate = SavedBitRate(BitRate)]
    /\ last' = [op |-> "init", status |-> InitStatus(initst, cfgst),
                calls |-> InitCalls(BitRate, isDMA, initst, cfgst),
                arg |-> <<BitRate, isDMA>>, wire |-> <<>>, usbRecv |-> USBBuffer]
    /\ UNCHANGED <<USBBuffer, ManualDMABuffer, bulkPending, nreq, pc, pin, pout>>

-----------------------------------------------------------------------------
(* The bulk transport finishes sending the buffer handed to ChannelToPC *)

BulkSendComplete ==
    /\ bulkPending
    /\ bulkPending' = FALSE
    /\ UNCHANGED <<USBBuffer, ManualDMABuffer, FX3State, i2c, last, nreq, pc, pin, pout>>

-----------------------------------------------------------------------------
(* Inputs *)

ReqTransferLengths == {U32Of(2), U32Of(12289), U32(1, 10)}
ReqLengths == {0, 2, PreambleCap + 1}
ReqHeaders == {Header(tl, U32Of(1000), len, 1, "up") : tl \in ReqTransferLengths, len \in ReqLengths}

\* what the host sends: the header, the address bytes and two data bytes
Payload(h) == Encode(h) \o <<DataByte(0), DataByte(1)>>

\* the host may send the payload whole or stop after 9 bytes
Wires == {Payload(h) : h \in ReqHeaders}
         \cup {SubSeq(Payload(h), 1, 9) : h \in {g \in ReqHeaders : g.transferLength = U32Of(2)}}

\* configure requests arriving between control requests
ReqBitRates == {U32Of(2000000)}

RetryCounts == {3}

-----------------------------------------------------------------------------
(* The firmware: globals are zero-initialised, the bus is not yet set up *)

NoOp == [op |-> "none", status |-> SUCCESS, calls |-> <<>>, arg |-> <<>>,
         wire |-> <<>>, usbRecv |-> <<>>]

InitGlobals ==
    /\ USBBuffer = <<>>
    /\ ManualDMABuffer = [buffer |-> "NULL", size |-> 0, count |-> 0]
    /\ bulkPending = FALSE
    /\ FX3State \in [I2CBitRate : {U32Of(0)}, I2CRetryCount : RetryCounts]
    /\ i2c = [inited |-> FALSE, configured |-> FALSE, cfg |-> NoConfig]
    /\ last = NoOp
    /\ nreq = 0

Init ==
    /\ InitGlobals
    /\ pc = "off"
    /\ pin = <<>>
    /\ pout = <<>>

\* the choices that matter for a request: the uninitialised local is read
\* only when the parsed length is 0, the frame is hit only by stores past
\* buffer[8]
Uninits(wire, ep0st) ==
    IF Ep0Proceeds(ep0st) /\ ParseLength(Received(wire, ep0st)) = 0
    THEN UninitValues ELSE {U32Of(0)}
Clobbers(wire, ep0st) ==
    IF Ep0Proceeds(ep0st) /\ ParseOobStores(Received(wire, ep0st)) # {}
    THEN BOOLEAN ELSE {FALSE}
BusResults(ep0st) == IF Ep0Proceeds(ep0st) THEN BusOutcomes ELSE {SUCCESS}

ReadRequest ==
    \E wire \in Wires, ep0st \in Ep0Statuses :
        \E uninit \in Uninits(wire, ep0st), clob \in Clobbers(wire, ep0st),
           busst \in BusResults(ep0st) :
            AdiI2CReadHandler(Len(wire), wire, ep0st, uninit, clob, busst)

WriteRequest ==
    \E wire \in Wires, ep0st \in Ep0Statuses :
        \E uninit \in Uninits(wire, ep0st), clob \in Clobbers(wire, ep0st),
           busst \in BusResults(ep0st) :
            AdiI2CWriteHandler(Len(wire), wire, ep0st, uninit, clob, busst)

\* the status of CyU3PI2cSetConfig matters only when CyU3PI2cInit succeeded
ConfigResults(initst) == IF initst = SUCCESS THEN DriverStatuses ELSE {SUCCESS}

Configure ==
    \E BitRate \in ReqBitRates, initst \in DriverStatuses :
        \E cfgst \in ConfigResults(initst) :
            AdiI2CInit(BitRate, FALSE, initst, cfgst)

Next ==
    \/ ReadRequest
    \/ WriteRequest
    \/ Configure
    \/ BulkSendComplete

Spec == Init /\ [][Next]_vars

-----------------------------------------------------------------------------
(* ParseUSBBuffer on its own: a header is encoded into an empty buffer and  *)
(* parsed                                                                   *)

ParseTransferLengths == {U32Of(0), U32Of(16), U32Of(65535), U32(1, 0),
                         U32(32768, 5), U32(65535, 65535)}
ParseTimeouts == {U32Of(0), U32Of(1000), U32(32768, 0), U32(65535, 65535)}
ParseLengths == 0..(PreambleCap + 1)
ParseCtrlMasks == {0, 1, 256, 32768, 65535}
ParseInputs ==
    [header : {Header(tl, to, len, mask, pat) : tl \in ParseTransferLengths,
                 to \in ParseTimeouts, len \in ParseLengths, mask \in ParseCtrlMasks,
                 pat \in AddrPatterns},
     uninit : UninitValues]

InitParse ==
    /\ InitGlobals
    /\ pc = "in"
    /\ pin \in ParseInputs
    /\ pout = <<>>

ParseStep ==
    /\ pc = "in"
    /\ pout' = ParseUSBBuffer(Encode(pin.header), pin.uninit)
    /\ pc' = "out"
    /\ UNCHANGED <<USBBuffer, ManualDMABuffer, bulkPending, FX3State, i2c, last, nreq, pin>>

NextParse == ParseStep

SpecParse == InitParse /\ [][NextParse]_vars

-----------------------------------------------------------------------------
(* AdiI2CInit on its own: any sequence of configure calls                  *)

BitRates == {U32Of(0), U32Of(50000), U32Of(99999), U32Of(100000), U32Of(400000),
             U32Of(1000000), U32Of(1000001), U32Of(2000000), U32(32768, 0),
             U32(65535, 65535)}

ConfigureAny ==
    \E BitRate \in BitRates, isDMA \in BOOLEAN, initst \in DriverStatuses :
        \E cfgst \in ConfigResults(initst) :
            AdiI2CInit(BitRate, isDMA, initst, cfgst)

NextConfig == ConfigureAny

SpecConfig == Init /\ [][NextConfig]_vars

-----------------------------------------------------------------------------
(* Reading the last operation *)

LastCalls(fn) == SelectSeq(last.calls, LAMBDA c : c.fn = fn)
BusCalls == SelectSeq(last.calls, LAMBDA c :
                c.fn \in {"CyU3PI2cReceiveBytes", "CyU3PI2cTransmitBytes"})
IsRequest == last.op \in {"read", "write"}
PayloadReceived == IsRequest /\ last.calls[1].st = SUCCESS
BytesRead == last.calls[1].arg.bytesRead
\* the fields of the received payload, by the wire layout
WireU32(buf, off) ==
    U32(At(buf, off + 2) + 256 * At(buf, off + 3), At(buf, off) + 256 * At(buf, off + 1))
WireTransferLength == WireU32(last.usbRecv, 0)
WirePreambleLength == At(last.usbRecv, 8)
Rejected == last.status # SUCCESS /\ BusCalls = <<>>

-----------------------------------------------------------------------------
(* Claims *)

\* C1: a write request whose transferLength + dataOffset (dataOffset =
\* 11 + preamble.length) exceeds the 4096 bytes of USBBuffer is rejected and
\* no CyU3PI2cTransmitBytes is issued for it.
C1_OverlongWriteRejected ==
    (last.op = "write" /\ PayloadReceived
     /\ U32SumExceeds(WireTransferLength, 11 + WirePreambleLength, USBBufferSize))
    => Rejected

\* C2: a payload whose preamble.length byte exceeds the capacity of the
\* preamble's address array is rejected: no address byte is stored at an
\* index >= capacity and no bus read or write is issued.
C2_OversizePreambleRejected ==
    (PayloadReceived /\ WirePreambleLength > PreambleCap)
    => /\ Rejected
       /\ \A i \in 1..Len(LastCalls("ParseUSBBuffer")) :
            LastCalls("ParseUSBBuffer")[i].arg.oob = {}

\* C3: a payload whose received length is less than 11 + preamble.length is
\* rejected as truncated, and parsing reads no byte at an index at or beyond
\* the received length.
C3_TruncatedRejected ==
    (PayloadReceived /\ BytesRead < 11 + WirePreambleLength)
    => /\ Rejected
       /\ \A i \in 1..Len(LastCalls("ParseUSBBuffer")) :
            \A r \in LastCalls("ParseUSBBuffer")[i].arg.reads : r < BytesRead

\* C4: every successful read request with transfer length numBytes hands the
\* bulk transport one descriptor whose valid-byte count is exactly numBytes
\* and whose buffer is the start of the staging buffer.
C4_ReadStagesNumBytes ==
    (last.op = "read" /\ last.status = SUCCESS)
    => /\ Len(LastCalls("CyU3PDmaChannelSetupSendBuffer")) = 1
       /\ Len(BusCalls) = 1
       /\ LastCalls("CyU3PDmaChannelSetupSendBuffer")[1].arg.buffer = "BulkBuffer"
       /\ U32Of(LastCalls("CyU3PDmaChannelSetupSendBuffer")[1].arg.count)
            = BusCalls[1].arg.byteCount

\* C5: round trip: a header with preamble.length within capacity, encoded in
\* the little-endian wire layout and parsed by ParseUSBBuffer, comes back
\* with every field unchanged.
C5_RoundTrip ==
    (pc = "out" /\ pin.header.length <= PreambleCap)
    => /\ pout.numBytes = pin.header.transferLength
       /\ pout.timeout = pin.header.timeoutTicks
       /\ pout.preamble.length = pin.header.length
       /\ pout.preamble.ctrlMask = pin.header.ctrlMask
       /\ pout.preamble.buffer = pin.header.addressBytes

C5_Witness ==
    /\ pc = "out"
    /\ pin.header.transferLength = U32(65535, 65535)
    /\ pin.header.timeoutTicks = U32(32768, 0)
    /\ pin.header.length = PreambleCap
    /\ pin.header.ctrlMask = 32768
    /\ pin.header.addressBytes[1] = 255
    /\ pout.numBytes = U32(65535, 65535)
    /\ pout.preamble.buffer = pin.header.addressBytes

\* C6: for every preamble.length from 0 up to the capacity, the parser
\* returns dataOffset = 11 + preamble.length.
C6_DataOffsetFollowsPreamble ==
    (pc = "out" /\ pin.header.length <= PreambleCap)
    => pout.index = U32Of(11 + pin.header.length)

\* C7: the bit rate AdiI2CInit hands to CyU3PI2cSetConfig is the requested
\* rate clamped into [100000, 1000000].
C7_BitRateClamped ==
    (last.op = "init")
    => \A i \in 1..Len(LastCalls("CyU3PI2cSetConfig")) :
         LET applied == LastCalls("CyU3PI2cSetConfig")[i].arg.bitRate
             req     == last.arg[1]
         IN  /\ U32Lt(req, U32Of(100000)) => applied = U32Of(100000)
             /\ U32Lt(U32Of(1000000), req) => applied = U32Of(1000000)
             /\ (U32Le(U32Of(100000), req) /\ U32Le(req, U32Of(1000000))) => applied = req
             /\ i2c.configured => i2c.cfg.bitRate = applied

C7_Witness ==
    /\ last.op = "init"
    /\ last.arg[1] = U32(65535, 65535)
    /\ i2c.configured
    /\ i2c.cfg.bitRate = U32Of(1000000)

\* C8: when the bus write fails, the write handler returns the bus error,
\* logs it exactly once with that error code, and USBBuffer still holds the
\* payload as received.
C8_WriteFailureLoggedOnce ==
    \A i \in 1..Len(LastCalls("CyU3PI2cTransmitBytes")) :
        LastCalls("CyU3PI2cTransmitBytes")[i].st # SUCCESS
        => /\ last.status = LastCalls("CyU3PI2cTransmitBytes")[i].st
           /\ Len(LastCalls("AdiLogError")) = 1
           /\ LastCalls("AdiLogError")[1].arg.code = last.status
           /\ USBBuffer = last.usbRecv
           /\ SubSeq(USBBuffer, 1, Len(last.wire)) = last.wire

C8_Witness ==
    /\ last.op = "write"
    /\ Len(LastCalls("CyU3PI2cTransmitBytes")) = 1
    /\ LastCalls("CyU3PI2cTransmitBytes")[1].st = "CY_U3P_ERROR_FAILURE"
    /\ last.status = "CY_U3P_ERROR_FAILURE"
    /\ Len(LastCalls("AdiLogError")) = 1
    /\ Len(last.wire) > 11

\* C9: the length passed to the bus driver never exceeds the buffer it is
\* given: for reads the capacity of BulkBuffer, for writes the bytes of the
\* received payload from dataOffset on.
C9_BusLengthWithinCapacity ==
    \A i \in 1..Len(BusCalls) :
        IF BusCalls[i].fn = "CyU3PI2cReceiveBytes"
        THEN U32Le(BusCalls[i].arg.byteCount, U32Of(BulkBufferSize))
        ELSE ~U32SumExceeds(BusCalls[i].arg.byteCount,
                            11 + BusCalls[i].arg.preamble.length, BytesRead)

\* C10: if receiving the control payload fails, the handler returns that
\* error at once: CyU3PUsbGetEP0Data is the only call it made (no parse, no
\* bus transaction, nothing staged, nothing logged).
C10_Ep0FailureReturnsImmediately ==
    (IsRequest /\ last.calls[1].st # SUCCESS)
    => /\ last.status = last.calls[1].st
       /\ Len(last.calls) = 1
       /\ last.calls[1].fn = "CyU3PUsbGetEP0Data"

C10_Witness ==
    /\ last.op = "read"
    /\ last.calls[1].fn = "CyU3PUsbGetEP0Data"
    /\ last.calls[1].st = "CY_U3P_ERROR_TIMEOUT"
    /\ last.status = "CY_U3P_ERROR_TIMEOUT"
    /\ bulkPending

\* the calls of an operation record l to the collaborator fn
CallsIn(l, fn) == SelectSeq(l.calls, LAMBDA c : c.fn = fn)

\* C11: whenever AdiI2CInit returns success, FX3State.I2CBitRate is the
\* clamped rate that call handed to CyU3PI2cSetConfig.
C11_SavedRateIsAppliedRate ==
    (last.op = "init" /\ last.status = SUCCESS)
    => /\ Len(LastCalls("CyU3PI2cSetConfig")) = 1
       /\ LastCalls("CyU3PI2cSetConfig")[1].st = SUCCESS
       /\ FX3State.I2CBitRate = LastCalls("CyU3PI2cSetConfig")[1].arg.bitRate
       /\ FX3State.I2CBitRate = i2c.cfg.bitRate

C11_Witness ==
    /\ last.op = "init"
    /\ last.status = SUCCESS
    /\ last.arg[1] = U32Of(50000)
    /\ FX3State.I2CBitRate = U32Of(100000)
    /\ i2c.cfg.bitRate = U32Of(100000)

\* C12: the read handler hands the buffer to the bulk transport only after
\* the bus read of the same request succeeded; when the bus read fails the
\* handler returns that status and leaves the descriptor and the transport
\* as they were.
C12_StageOnlyAfterBusRead ==
    [][(nreq' = nreq + 1 /\ last'.op = "read")
       => /\ CallsIn(last', "CyU3PDmaChannelSetupSendBuffer") # <<>>
             => /\ Len(last'.calls) = 4
                /\ last'.calls[3].fn = "CyU3PI2cReceiveBytes"
                /\ last'.calls[3].st = SUCCESS
                /\ last'.calls[4].fn = "CyU3PDmaChannelSetupSendBuffer"
          /\ \A i \in 1..Len(CallsIn(last', "CyU3PI2cReceiveBytes")) :
                CallsIn(last', "CyU3PI2cReceiveBytes")[i].st # SUCCESS
                => /\ last'.status = CallsIn(last', "CyU3PI2cReceiveBytes")[i].st
                   /\ CallsIn(last', "CyU3PDmaChannelSetupSendBuffer") = <<>>
                   /\ ManualDMABuffer' = ManualDMABuffer
                   /\ bulkPending' = bulkPending]_vars

C12_Witness ==
    /\ last.op = "read"
    /\ Len(last.calls) = 3
    /\ last.calls[3].fn = "CyU3PI2cReceiveBytes"
    /\ last.calls[3].st = "CY_U3P_ERROR_FAILURE"
    /\ last.status = "CY_U3P_ERROR_FAILURE"
    /\ ManualDMABuffer = [buffer |-> "BulkBuffer", size |-> DmaBufferSize, count |-> 2]
    /\ bulkPending

\* C13: every configure call calls the driver in the order deinit, init,
\* setConfig, with init called once; if init fails the error is logged, the
\* failure is returned and setConfig is not called.
C13_ConfigureCallOrder ==
    (last.op = "init")
    => /\ Len(last.calls) = 3
       /\ last.calls[1].fn = "CyU3PI2cDeInit"
       /\ last.calls[2].fn = "CyU3PI2cInit"
       /\ Len(LastCalls("CyU3PI2cDeInit")) = 1
       /\ Len(LastCalls("CyU3PI2cInit")) = 1
       /\ last.calls[2].st = SUCCESS
          => /\ last.calls[3].fn = "CyU3PI2cSetConfig"
             /\ last.status = last.calls[3].st
       /\ last.calls[2].st # SUCCESS
          => /\ last.calls[3].fn = "AdiLogError"
             /\ last.calls[3].arg.code = last.calls[2].st
             /\ last.status = last.calls[2].st
             /\ LastCalls("CyU3PI2cSetConfig") = <<>>
             /\ ~i2c.configured

C13_Witness ==
    /\ last.op = "init"
    /\ last.calls[2].fn = "CyU3PI2cInit"
    /\ last.calls[2].st = "CY_U3P_ERROR_NOT_SUPPORTED"
    /\ last.status = "CY_U3P_ERROR_NOT_SUPPORTED"
    /\ Len(LastCalls("AdiLogError")) = 1
    /\ FX3State.I2CBitRate = U32Of(400000)

\* C14: a bus read never writes the staging buffer while the bulk upload
\* staged by an earlier read request is still pending.
C14_NoBusReadWhileUploadPending ==
    \A i \in 1..Len(LastCalls("CyU3PI2cReceiveBytes")) :
        LastCalls("CyU3PI2cReceiveBytes")[i].st = SUCCESS
        => ~LastCalls("CyU3PI2cReceiveBytes")[i].arg.pending

\* C15: the bytes handed to the bus write are the transferLength bytes of
\* the received payload that start at dataOffset = 11 + preamble.length in
\* USBBuffer, for every preamble.length including 0 (stated here for the
\* lengths within the capacity of the preamble).
C15_WriteDataTakenAtDataOffset ==
    (last.op = "write" /\ PayloadReceived /\ WirePreambleLength <= PreambleCap)
    => \A i \in 1..Len(LastCalls("CyU3PI2cTransmitBytes")) :
         /\ LastCalls("CyU3PI2cTransmitBytes")[i].arg.data = "USBBuffer"
         /\ LastCalls("CyU3PI2cTransmitBytes")[i].arg.offset = U32Of(11 + WirePreambleLength)
         /\ LastCalls("CyU3PI2cTransmitBytes")[i].arg.byteCount = WireTransferLength

\* C16: the read and write handlers never re-initialise or reconfigure the
\* bus: whatever the outcome, a request makes at most one bus transaction
\* call and no driver set-up call, and leaves the bus configuration, the
\* stored bit rate and the retry count unchanged.
C16_HandlersLeaveBusConfiguration ==
    [][(nreq' = nreq + 1)
       => /\ last'.op \in {"read", "write"}
          /\ Len(CallsIn(last', "CyU3PI2cReceiveBytes"))
               + Len(CallsIn(last', "CyU3PI2cTransmitBytes")) <= 1
          /\ CallsIn(last', "CyU3PI2cDeInit") = <<>>
          /\ CallsIn(last', "CyU3PI2cInit") = <<>>
          /\ CallsIn(last', "CyU3PI2cSetConfig") = <<>>
          /\ i2c' = i2c
          /\ FX3State' = FX3State]_vars

C16_Witness ==
    /\ last.op = "write"
    /\ Len(LastCalls("CyU3PI2cTransmitBytes")) = 1
    /\ LastCalls("CyU3PI2cTransmitBytes")[1].st = "CY_U3P_ERROR_FAILURE"
    /\ i2c.configured
    /\ i2c.cfg.bitRate = U32Of(1000000)
    /\ FX3State = [I2CBitRate |-> U32Of(1000000), I2CRetryCount |-> 3]

\* C17: whenever AdiI2CInit returns a failure status, from CyU3PI2cInit or
\* from CyU3PI2cSetConfig, FX3State.I2CBitRate is left unchanged.
C17_FailedConfigureKeepsSavedRate ==
    [][(last'.op = "init" /\ last'.status # SUCCESS)
       => FX3State'.I2CBitRate = FX3State.I2CBitRate]_vars

\* C18: every descriptor the read handler hands to the bulk transport has
\* count <= size.
C18_DescriptorCountWithinSize ==
    /\ ManualDMABuffer.count <= ManualDMABuffer.size
    /\ \A i \in 1..Len(LastCalls("CyU3PDmaChannelSetupSendBuffer")) :
         LastCalls("CyU3PDmaChannelSetupSendBuffer")[i].arg.count
           <= LastCalls("CyU3PDmaChannelSetupSendBuffer")[i].arg.size

====
